---------------------------- MODULE Spec2Model ----------------------------
(***************************************************************************)
(* CEX-spider: the paginated candle fetcher (DataFetcher.fetchSymbolData), *)
(* the CSV writer (DataFetcher.writeDataToCSV) and the orchestrator (main).*)
(*                                                                         *)
(* Conventions of the model                                                *)
(*  - A symbol, and a file path, is a sequence of one-character strings    *)
(*    (fixed parts of a path are single tokens), so that String.replace    *)
(*    and path.dirname are computed, not assumed.                          *)
(*  - An entry of an OHLCV page is a record [kind, ts, px]:                *)
(*      kind = "ok"       an array whose element 0 is the number ts        *)
(*      kind = "nan"      an array whose element 0 is NaN (typeof 'number')*)
(*      kind = "badts"    an array whose element 0 is not a number         *)
(*      kind = "notarray" a value that is not an array (null)              *)
(*    px stands for the five fields open, high, low, close, volume.        *)
(*  - An optional argument is <<>> (undefined) or <<v>>.                   *)
(*  - Time is counted in abstract ticks; DefaultStart and Delay are the    *)
(*    program's 2020-01-01 epoch and 1000 ms delay on that scale, and      *)
(*    DefaultLimit its page size of 100 on the scale of the pages.         *)
(*  - Finite timestamps lie within the range of Date, so that the          *)
(*    toISOString() calls of the log lines 106 and 114 throw for NaN only. *)
(***************************************************************************)
EXTENDS Integers, Sequences, FiniteSets, TLC

VARIABLES
    \* ---- environment (fixed after Init) ----
    exchanges,      \* config.exchanges
    symbols,        \* config.symbols
    markets,        \* what loadMarkets() of the exchange resolves to (set of keys)
    adapter,        \* "store": fetchOHLCV honours since/limit over `store`; "any": arbitrary pages
    store,          \* the candles a "store" adapter holds
    pool,           \* the entries an "any" adapter may put in a page
    \* ---- main ----
    pc,             \* position of main / of the calling test
    ei, si,         \* indices of the for-of loops over exchanges and symbols
    fetcher,        \* exchange id of the constructed DataFetcher, or "none"
    data,           \* main's `data`
    raised,         \* error propagating in the caller, <<>> if none
    exitCode,       \* <<>> while running, <<1>> after process.exit(1)
    \* ---- fetchSymbolData frame ----
    fpc,            \* position inside fetchSymbolData
    fargs,          \* the arguments of the call: [symbol, since, limit]
    symbol,         \* the (reassigned) parameter `symbol`
    currentSince, totalRequests, allData,
    ferror,         \* the error caught by fetchSymbolData's catch block, <<>> if none
    fresult,        \* outcome of the call: [kind |-> "none"|"value"|"error", ...]
    \* ---- writeDataToCSV frame ----
    wpc, wargs, wresult,
    \* ---- file system ----
    files,          \* path -> content (sequence of lines), as a set of [path, content]
    dirs,           \* existing directories
    \* ---- observation (history) ----
    requests,       \* fetchOHLCV requests issued, in order
    received,       \* pages received, in order
    events,         \* delays / requests / responses of the current fetch, in order
    loads,          \* loadMarkets calls and whether they resolved, in order
    processed,      \* (ei, si) pairs whose processing started, in order
    before,         \* the file system as the processing of each pair started, in order
    results,        \* what each fetchSymbolData call of main settled to, in order
    writes,         \* writeDataToCSV calls, in order
    written         \* what each writeDataToCSV call settled to, and the file read back

envVars   == <<exchanges, symbols, markets, adapter, store, pool>>
mainVars  == <<pc, ei, si, fetcher, data, raised, exitCode>>
fetchVars == <<fpc, fargs, symbol, currentSince, totalRequests, allData, ferror, fresult>>
writeVars == <<wpc, wargs, wresult>>
fsVars    == <<files, dirs>>
histVars  ==
    <<requests, received, events, loads, processed, before, results, writes, written>>
vars == <<envVars, mainVars, fetchVars, writeVars, fsVars, histVars>>

-----------------------------------------------------------------------------
(* Bounds of the model *)
MaxTs       == 4    \* candle timestamps range over 0..MaxTs
MaxLimit    == 2    \* limit arguments and page lengths range over 0..MaxLimit
MaxRequests == 3    \* an "any" adapter ends the pagination by this request

(* Program constants, on the model's scale *)
DefaultStart == 2   \* new Date('2020-01-01').getTime()
DefaultLimit == 2   \* limit: number = 100
Delay        == 1   \* setTimeout(resolve, 1000)

Undefined == <<>>
Some(n)   == <<n>>

\* The number NaN, kept apart from every timestamp; NaN + 1 is NaN.
NaN == -1
plus(x, y) == IF x = NaN THEN NaN ELSE x + y

Candle(t)   == [kind |-> "ok", ts |-> t, px |-> 1]
NaNTs       == [kind |-> "nan", ts |-> NaN, px |-> 1]
BadTs       == [kind |-> "badts", ts |-> 0, px |-> 1]
NotArray    == [kind |-> "notarray", ts |-> 0, px |-> 0]

SeqsUpTo(S, n) == UNION {[1..k -> S] : k \in 0..n}

Last(s) == s[Len(s)]


-----------------------------------------------------------------------------
(* Strings *)

\* String.prototype.replace(pattern, replacement) with a string pattern:
\* only the first occurrence is replaced.
RECURSIVE replace(_, _, _)
replace(s, pattern, replacement) ==
    IF s = <<>> THEN <<>>
    ELSE IF Head(s) = pattern THEN <<replacement>> \o Tail(s)
    ELSE <<Head(s)>> \o replace(Tail(s), pattern, replacement)

\* Array.prototype.find: the first element satisfying the test, <<>> if none
\* (the test here is `variant => markets[variant]`).
RECURSIVE find(_, _)
find(variants, catalog) ==
    IF variants = <<>> THEN Undefined
    ELSE IF Head(variants) \in catalog THEN Some(Head(variants))
    ELSE find(Tail(variants), catalog)

\* Variant of symbolVariants: the '_' variant is tried before the '-' variant.
symbolVariants_Swapped(sym) == <<sym, replace(sym, "/", "_"), replace(sym, "/", "-")>>

symbolVariants(sym) == <<sym, replace(sym, "/", "-"), replace(sym, "/", "_")>>

\* Variant of foundSymbol: an unknown symbol is fetched as it was requested.
foundSymbol_Fallback(sym, catalog) ==
    IF find(symbolVariants(sym), catalog) = Undefined THEN Some(sym)
    ELSE find(symbolVariants(sym), catalog)

\* Lines 84-100: the symbol used for the fetch, <<>> when no variant is a key.
foundSymbol(sym, catalog) ==
    IF sym \in catalog THEN Some(sym) ELSE find(symbolVariants(sym), catalog)

-----------------------------------------------------------------------------
(* Arguments *)

\* `since || new Date('2020-01-01').getTime()`: undefined and 0 are falsy.
startDate(since) ==
    IF since = Undefined \/ since = Some(0) THEN DefaultStart ELSE since[1]

\* `limit: number = 100`: the default applies to undefined only.
limitOf(limit) == IF limit = Undefined THEN DefaultLimit ELSE limit[1]

-----------------------------------------------------------------------------
(* The exchange adapter (ccxt), as the fetcher sees it *)

CcxtExchanges == {"okx", "binance"}       \* ccxt.exchanges
AdapterErrors == {"NetworkError", "RateLimitExceeded"}

RECURSIVE Ascending(_)
Ascending(S) ==
    IF S = {} THEN <<>>
    ELSE LET m == CHOOSE c \in S : \A d \in S : c.ts <= d.ts
         IN  <<m>> \o Ascending(S \ {m})

Take(s, n) == IF Len(s) <= n THEN s ELSE SubSeq(s, 1, n)

\* A "store" adapter: the (up to) limit earliest candles with timestamp >= since.
StorePage(since, limit) ==
    Take(Ascending({c \in store : c.ts >= since}), limit)

\* Lines 135-138: the last entry is a non-empty array whose element 0 is a number.
validLast(page) == page # <<>> /\ Last(page).kind \in {"ok", "nan"}

-----------------------------------------------------------------------------
(* fetchSymbolData (lines 74-185) *)

NoResult == [kind |-> "none", value |-> <<>>, error |-> <<>>]
Returned(v) == [kind |-> "value", value |-> v, error |-> <<>>]
Thrown(e)   == [kind |-> "error", value |-> <<>>, error |-> Some(e)]

\* Entry into fetchSymbolData(sym, since, limit): the frame of a new call.
EnterFetch(sym, since, limit) ==
    /\ fargs' = [symbol |-> sym, since |-> since, limit |-> limit]
    /\ symbol' = sym
    /\ fpc' = "load"
    /\ currentSince' = 0 /\ totalRequests' = 0 /\ allData' = <<>>
    /\ ferror' = Undefined /\ fresult' = NoResult
    /\ events' = <<>>

\* Lines 80-110: await loadMarkets(), resolve the symbol, set up the loop.
LoadMarkets ==
    /\ fpc = "load"
    /\ \/ \E e \in AdapterErrors :
            /\ loads' = Append(loads, [ex |-> fetcher, ok |-> FALSE])
            /\ ferror' = Some(e) /\ fpc' = "catch"
            /\ UNCHANGED <<symbol, currentSince, totalRequests, allData, fresult>>
       \/ LET found == foundSymbol(symbol, markets[fetcher]) IN
            /\ loads' = Append(loads, [ex |-> fetcher, ok |-> TRUE])
            /\ IF found = Undefined
               THEN /\ fresult' = Returned(<<>>) /\ fpc' = "done"
                    /\ UNCHANGED <<symbol, currentSince, totalRequests, allData, ferror>>
               ELSE /\ symbol' = found[1]
                    /\ allData' = <<>>
                    /\ currentSince' = startDate(fargs.since)
                    /\ totalRequests' = 0
                    /\ fpc' = "loop"
                    /\ UNCHANGED <<ferror, fresult>>
    /\ UNCHANGED <<envVars, mainVars, fargs, writeVars, fsVars,
                   requests, received, events, processed, before, results, writes, written>>

\* Variant of needsDelay: the first request is delayed too.
needsDelay_Always(n) == n >= 1

\* Line 117: the branch on `totalRequests > 1`.
needsDelay(n) == n > 1

\* Line 114: new Date(currentSince).toISOString() throws a RangeError for an
\* invalid date.
logThrows(since) == since = NaN

\* Lines 112-120: totalRequests++, the log line, and the branch to the delay.
LoopHead ==
    /\ fpc = "loop"
    /\ totalRequests' = totalRequests + 1
    /\ IF logThrows(currentSince)
       THEN ferror' = Some("RangeError") /\ fpc' = "catch"
       ELSE /\ fpc' = IF needsDelay(totalRequests + 1) THEN "delay" ELSE "request"
            /\ UNCHANGED ferror
    /\ UNCHANGED <<envVars, mainVars, fargs, symbol, currentSince, allData,
                   fresult, writeVars, fsVars, histVars>>

\* Line 119: await new Promise(resolve => setTimeout(resolve, 1000)).
Sleep ==
    /\ fpc = "delay"
    /\ events' = Append(events, [e |-> "delay", ms |-> Delay, err |-> ""])
    /\ fpc' = "request"
    /\ UNCHANGED <<envVars, mainVars, fargs, symbol, currentSince, totalRequests,
                   allData, ferror, fresult, writeVars, fsVars,
                   requests, received, loads, processed, before, results, writes, written>>

\* Line 122: the call this.exchange.fetchOHLCV(symbol, '1d', currentSince, limit).
\* (`call` is the number of the pair main is processing, 0 outside main.)
Request(sym, since, limit) ==
    [call |-> Len(processed), ex |-> fetcher,
     symbol |-> sym, timeframe |-> "1d", since |-> since, limit |-> limit]

IssueRequest ==
    /\ fpc = "request"
    /\ requests' = Append(requests, Request(symbol, currentSince, limitOf(fargs.limit)))
    /\ events' = Append(events, [e |-> "request", ms |-> 0, err |-> ""])
    /\ fpc' = "await"
    /\ UNCHANGED <<envVars, mainVars, fargs, symbol, currentSince, totalRequests,
                   allData, ferror, fresult, writeVars, fsVars,
                   received, loads, processed, before, results, writes, written>>

\* Variant of nextSince: the cursor is the last timestamp itself.
nextSince_NoIncrement(page) ==
    IF validLast(page) THEN Some(plus(Last(page).ts, 0)) ELSE Undefined

\* Lines 135-147: the next cursor, <<>> when the last entry stops the loop.
nextSince(page) ==
    IF validLast(page) THEN Some(plus(Last(page).ts, 1)) ELSE Undefined

\* Variant of OnPage: a short page does not end the loop.
OnPage_NoShortStop(page, acc, since, limit) ==
    IF Len(page) = 0
    THEN [allData |-> acc, currentSince |-> since, break |-> TRUE]
    ELSE IF nextSince(page) = Undefined
    THEN [allData |-> acc \o page, currentSince |-> since, break |-> TRUE]
    ELSE [allData |-> acc \o page, currentSince |-> nextSince(page)[1], break |-> FALSE]

\* Variant of OnPage: an empty page is asked for again.
OnPage_EmptyContinues(page, acc, since, limit) ==
    IF Len(page) = 0
    THEN [allData |-> acc, currentSince |-> since, break |-> FALSE]
    ELSE IF nextSince(page) = Undefined
    THEN [allData |-> acc \o page, currentSince |-> since, break |-> TRUE]
    ELSE [allData |-> acc \o page, currentSince |-> nextSince(page)[1],
          break |-> Len(page) < limit]

\* Lines 125-153 on a received page: [allData, currentSince, break].
OnPage(page, acc, since, limit) ==
    IF Len(page) = 0
    THEN [allData |-> acc, currentSince |-> since, break |-> TRUE]
    ELSE IF nextSince(page) = Undefined
    THEN [allData |-> acc \o page, currentSince |-> since, break |-> TRUE]
    ELSE [allData |-> acc \o page, currentSince |-> nextSince(page)[1],
          break |-> Len(page) < limit]

\* The pages fetchOHLCV may resolve to for this request. An "any" adapter answers
\* with whatever it likes, but lets the pagination end by request MaxRequests.
AdapterPages(since, limit) ==
    IF adapter = "store" THEN {StorePage(since, limit)}
    ELSE {p \in SeqsUpTo(pool, MaxLimit) :
            totalRequests < MaxRequests \/ OnPage(p, <<>>, since, limit).break}

\* Lines 122-158: the awaited fetchOHLCV settles: a page, or a rejection.
Receive ==
    /\ fpc = "await"
    /\ \/ \E e \in AdapterErrors :
            /\ ferror' = Some(e) /\ fpc' = "catch"
            /\ events' = Append(events, [e |-> "rejected", ms |-> 0, err |-> e])
            /\ UNCHANGED <<currentSince, allData, fresult, received>>
       \/ \E page \in AdapterPages(currentSince, limitOf(fargs.limit)) :
            LET r == OnPage(page, allData, currentSince, limitOf(fargs.limit)) IN
            /\ received' = Append(received, page)
            /\ events' = Append(events, [e |-> "page", ms |-> 0, err |-> ""])
            /\ allData' = r.allData
            /\ currentSince' = r.currentSince
            /\ IF r.break
               THEN fpc' = "done" /\ fresult' = Returned(r.allData)
               ELSE fpc' = "loop" /\ UNCHANGED fresult
            /\ UNCHANGED ferror
    /\ UNCHANGED <<envVars, mainVars, fargs, symbol, totalRequests, writeVars, fsVars,
                   requests, loads, processed, before, results, writes, written>>

\* Variant of CatchBlock: the error is logged and what was accumulated is returned.
CatchBlock_Swallow(error, partial) == Returned(partial)

\* Lines 159-184: log, then `throw error`.
CatchBlock(error, partial) == Thrown(error)

FetchCatch ==
    /\ fpc = "catch"
    /\ fresult' = CatchBlock(ferror[1], allData)
    /\ fpc' = "done"
    /\ UNCHANGED <<envVars, mainVars, fargs, symbol, currentSince, totalRequests,
                   allData, ferror, writeVars, fsVars, histVars>>

FetchStep == LoadMarkets \/ LoopHead \/ Sleep \/ IssueRequest \/ Receive \/ FetchCatch


-----------------------------------------------------------------------------
(* writeDataToCSV (lines 194-233) *)

DayLength      == 2    \* one day (86 400 000 ms) in ticks
TimezoneOffset == 0    \* offset of local time from UTC, in ticks

Header == <<"timestamp", "open,high,low,close,volume">>

\* Lines 218-219: the local calendar day of a millisecond timestamp, as text.
formattedDate(entry) ==
    IF entry.kind = "ok"
    THEN ToString((entry.ts + TimezoneOffset) \div DayLength)
    ELSE "NaN-NaN-NaN"

\* Line 220: one line of the file.
csvLine(entry) == <<formattedDate(entry), ToString(entry.px)>>

\* Line 216: destructuring throws unless the item is iterable.
destructurable(entry) == entry.kind # "notarray"

\* Lines 212-221: csvContent.
RECURSIVE csvRows(_)
csvRows(series) ==
    IF series = <<>> THEN <<>> ELSE <<csvLine(Head(series))>> \o csvRows(Tail(series))

\* Variant of csvContent: the last entry of the series gets no line.
csvContent_SkipsLast(series) ==
    <<Header>> \o csvRows(SubSeq(series, 1, Len(series) - 1))

csvContent(series) == <<Header>> \o csvRows(series)

\* Lines 197-201: the path written when no filePath is given.
cleanSymbol(sym) == replace(replace(sym, "/", "-"), "\\", "-")

defaultPath(exchangeId, sym) ==
    <<".", "/", "data", "/", exchangeId, "_">> \o cleanSymbol(sym) \o <<"_daily.csv">>

\* (`!filePath` holds of undefined and of the empty string.)
filePathOf(filePath, exchangeId, sym) ==
    IF filePath = Undefined \/ filePath = Some(<<>>)
    THEN defaultPath(exchangeId, sym) ELSE filePath[1]

\* path.dirname
RECURSIVE lastSlash(_)
lastSlash(path) ==
    IF path = <<>> THEN 0
    ELSE IF Last(path) = "/" THEN Len(path)
    ELSE lastSlash(SubSeq(path, 1, Len(path) - 1))

dirname(path) ==
    IF lastSlash(path) = 0 THEN <<".">>
    ELSE IF lastSlash(path) = 1 THEN <<"/">>
    ELSE SubSeq(path, 1, lastSlash(path) - 1)

\* fs.mkdirSync(dir, { recursive: true }): dir and its missing ancestors.
RECURSIVE ancestors(_)
ancestors(dir) ==
    IF dirname(dir) = dir \/ lastSlash(dir) = 0 THEN {dir}
    ELSE {dir} \cup ancestors(dirname(dir))

\* Variant of writeFileSync: the content is appended to an existing file.
writeFileSync_Append(fs, path, content) ==
    [p \in DOMAIN fs \cup {path} |->
        IF p # path THEN fs[p]
        ELSE IF path \in DOMAIN fs THEN fs[path] \o content ELSE content]

\* fs.writeFileSync(filePath, csvContent, 'utf8'): the file is replaced.
writeFileSync(fs, path, content) ==
    [p \in DOMAIN fs \cup {path} |-> IF p = path THEN content ELSE fs[p]]

FsErrors == {"EACCES"}

EnterWrite(series, exchangeId, sym, filePath) ==
    /\ wargs' = [data |-> series, exchangeId |-> exchangeId, symbol |-> sym,
                 filePath |-> filePath]
    /\ wpc' = "body"
    /\ wresult' = NoResult
    /\ writes' = Append(writes, [call |-> Len(processed), data |-> series,
                                 path |-> filePathOf(filePath, exchangeId, sym)])

\* The call has settled: its outcome, and what a reader of the target file finds.
Settled(result, fs) ==
    LET path == filePathOf(wargs.filePath, wargs.exchangeId, wargs.symbol) IN
    [call |-> Len(processed), path |-> path, data |-> wargs.data, result |-> result,
     exchangeId |-> wargs.exchangeId, symbol |-> wargs.symbol,
     filePath |-> wargs.filePath,
     content |-> IF path \in DOMAIN fs THEN Some(fs[path]) ELSE Undefined]

\* Lines 195-225: the try block. It runs without suspension.
WriteBody ==
    /\ wpc = "body"
    /\ LET path    == filePathOf(wargs.filePath, wargs.exchangeId, wargs.symbol)
           dir     == dirname(path)
           made    == IF dir \in dirs THEN dirs ELSE dirs \cup ancestors(dir)
           content == csvContent(wargs.data)
       IN
       \/ \* mkdirSync throws
          /\ dir \notin dirs
          /\ \E e \in FsErrors : wresult' = Thrown(e)
          /\ wpc' = "catch"
          /\ UNCHANGED <<files, dirs, written>>
       \/ \* an item cannot be destructured
          /\ \E i \in 1..Len(wargs.data) : ~destructurable(wargs.data[i])
          /\ wresult' = Thrown("TypeError")
          /\ wpc' = "catch"
          /\ dirs' = made
          /\ UNCHANGED <<files, written>>
       \/ \* writeFileSync throws: the file is untouched, or left truncated
          /\ \A i \in 1..Len(wargs.data) : destructurable(wargs.data[i])
          /\ \E e \in FsErrors : wresult' = Thrown(e)
          /\ wpc' = "catch"
          /\ dirs' = made
          /\ UNCHANGED written
          /\ \/ UNCHANGED files
             \/ files' = writeFileSync(files, path, <<>>)
       \/ \* success
          /\ \A i \in 1..Len(wargs.data) : destructurable(wargs.data[i])
          /\ files' = writeFileSync(files, path, content)
          /\ dirs' = made
          /\ wresult' = Returned(<<>>)
          /\ wpc' = "done"
          /\ written' = Append(written, Settled(Returned(<<>>), files'))
    /\ UNCHANGED <<envVars, mainVars, fetchVars, wargs,
                   requests, received, events, loads, processed, before, results, writes>>

\* Lines 226-232: log, then `throw error`.
WriteCatch ==
    /\ wpc = "catch"
    /\ wpc' = "done"
    /\ written' = Append(written, Settled(wresult, files))
    /\ UNCHANGED <<envVars, mainVars, fetchVars, wargs, wresult, fsVars,
                   requests, received, events, loads, processed, before, results, writes>>

WriteStep == WriteBody \/ WriteCatch


-----------------------------------------------------------------------------
(* DataFetcher constructor (lines 44-66) and main *)

\* Lines 60-65: the instance, or <<>> when the constructor throws.
newDataFetcher(exchangeId) ==
    IF exchangeId \in CcxtExchanges THEN Some(exchangeId) ELSE Undefined

\* Variant of handlerOf: the loop over symbols has no try of its own.
handlerOf_NoSymbolTry(site) ==
    CASE site \in {"fetchSymbolData", "writeDataToCSV", "construct"} -> "exchangeCatch"
      [] OTHER -> "topCatch"

\* Variant of handlerOf: the loop over exchanges has no try of its own.
handlerOf_NoExchangeTry(site) ==
    CASE site \in {"fetchSymbolData", "writeDataToCSV"} -> "symbolCatch"
      [] OTHER -> "topCatch"

\* Variant of handlerOf: only the outermost try exists.
handlerOf_TopOnly(site) == "topCatch"

\* The catch clause that receives an error raised at a place of main:
\* the innermost enclosing try.
handlerOf(site) ==
    CASE site \in {"fetchSymbolData", "writeDataToCSV"} -> "symbolCatch"
      [] site = "construct"                             -> "exchangeCatch"
      [] OTHER                                          -> "topCatch"

\* Line 7, and the entry of the loop over config.exchanges.
MainStart ==
    /\ pc = "start"
    /\ ei' = 1
    /\ pc' = "exchangeLoop"
    /\ UNCHANGED <<envVars, si, fetcher, data, raised, exitCode,
                   fetchVars, writeVars, fsVars, histVars>>

\* Lines 10-15: the next exchange, and `new DataFetcher(exchangeId)`.
Construct ==
    /\ pc = "exchangeLoop"
    /\ ei <= Len(exchanges)
    /\ LET made == newDataFetcher(exchanges[ei]) IN
         IF made = Undefined
         THEN /\ raised' = Some("Error")
              /\ pc' = handlerOf("construct")
              /\ UNCHANGED <<fetcher, si>>
         ELSE /\ fetcher' = made[1]
              /\ si' = 1
              /\ pc' = "symbolLoop"
              /\ UNCHANGED raised
    /\ UNCHANGED <<envVars, ei, data, exitCode, fetchVars, writeVars, fsVars, histVars>>

\* Lines 18-23: the next symbol, and the call fetcher.fetchSymbolData(symbol).
CallFetch ==
    /\ pc = "symbolLoop"
    /\ si <= Len(symbols)
    /\ processed' = Append(processed, <<ei, si>>)
    /\ before' = Append(before, files)
    /\ EnterFetch(symbols[si], Undefined, Undefined)
    /\ pc' = "fetchSymbolData"
    /\ UNCHANGED <<envVars, ei, si, fetcher, data, raised, exitCode,
                   writeVars, fsVars, requests, received, loads, results, writes, written>>

\* Line 18: the symbols of this exchange are exhausted.
EndSymbols ==
    /\ pc = "symbolLoop"
    /\ si > Len(symbols)
    /\ ei' = ei + 1
    /\ pc' = "exchangeLoop"
    /\ UNCHANGED <<envVars, si, fetcher, data, raised, exitCode,
                   fetchVars, writeVars, fsVars, histVars>>

\* Variant of writesAfter: the CSV is written whatever the fetch came to.
writesAfter_Always(result) == TRUE

\* Variant of writesAfter: an empty series is not written.
writesAfter_NonEmpty(result) == result.kind = "value" /\ result.value # <<>>

\* Lines 23-26: `const data = await fetcher.fetchSymbolData(symbol)` goes on
\* to the next statement, the call of writeDataToCSV, when the call returned.
writesAfter(result) == result.kind = "value"

\* Lines 23-26: fetchSymbolData settled; on a value, call writeDataToCSV.
AfterFetch ==
    /\ pc = "fetchSymbolData"
    /\ fpc = "done"
    /\ fpc' = "idle"
    /\ results' = Append(results, fresult)
    /\ IF writesAfter(fresult)
       THEN /\ data' = fresult.value
            /\ EnterWrite(fresult.value, exchanges[ei], symbols[si], Undefined)
            /\ pc' = "writeDataToCSV"
            /\ UNCHANGED raised
       ELSE /\ raised' = fresult.error
            /\ pc' = handlerOf("fetchSymbolData")
            /\ UNCHANGED <<data, writeVars, writes>>
    /\ UNCHANGED <<envVars, ei, si, fetcher, exitCode, fargs, symbol, currentSince,
                   totalRequests, allData, ferror, fresult, fsVars,
                   requests, received, events, loads, processed, before, written>>

\* Lines 26-35: writeDataToCSV settled; on success, the next symbol.
AfterWrite ==
    /\ pc = "writeDataToCSV"
    /\ wpc = "done"
    /\ wpc' = "idle"
    /\ IF wresult.kind = "value"
       THEN /\ si' = si + 1
            /\ pc' = "symbolLoop"
            /\ UNCHANGED raised
       ELSE /\ raised' = wresult.error
            /\ pc' = handlerOf("writeDataToCSV")
            /\ UNCHANGED si
    /\ UNCHANGED <<envVars, ei, fetcher, data, exitCode, fetchVars, wargs, wresult,
                   fsVars, histVars>>

\* Lines 27-34, 36-43, 47-53: the three catch clauses.
Catch ==
    /\ pc \in {"symbolCatch", "exchangeCatch", "topCatch"}
    /\ raised' = Undefined
    /\ CASE pc = "symbolCatch"   -> /\ si' = si + 1
                                    /\ pc' = "symbolLoop"
                                    /\ UNCHANGED <<ei, exitCode>>
         [] pc = "exchangeCatch" -> /\ ei' = ei + 1
                                    /\ pc' = "exchangeLoop"
                                    /\ UNCHANGED <<si, exitCode>>
         [] OTHER                -> /\ exitCode' = Some(1)
                                    /\ pc' = "exited"
                                    /\ UNCHANGED <<ei, si>>
    /\ UNCHANGED <<envVars, fetcher, data, fetchVars, writeVars, fsVars, histVars>>

\* Line 46: 'All data fetching tasks completed'.
Completed ==
    /\ pc = "exchangeLoop"
    /\ ei > Len(exchanges)
    /\ pc' = "completed"
    /\ UNCHANGED <<envVars, ei, si, fetcher, data, raised, exitCode,
                   fetchVars, writeVars, fsVars, histVars>>

MainStep ==
    MainStart \/ Construct \/ CallFetch \/ EndSymbols \/ AfterFetch \/ AfterWrite
      \/ Catch \/ Completed

-----------------------------------------------------------------------------
(* Environments *)

ETH == <<"E", "/", "U">>
BTC == <<"B", "/", "U">>
XRP == <<"X", "/", "U">>

Timestamps == 0..MaxTs
Limits     == {Undefined} \cup {Some(n) : n \in 0..MaxLimit}
Sinces     == {Undefined} \cup {Some(t) : t \in Timestamps}

IdleFrames ==
    /\ fpc = "idle" /\ fargs = [symbol |-> <<>>, since |-> Undefined, limit |-> Undefined]
    /\ symbol = <<>> /\ currentSince = 0 /\ totalRequests = 0 /\ allData = <<>>
    /\ ferror = Undefined /\ fresult = NoResult
    /\ wpc = "idle"
    /\ wargs = [data |-> <<>>, exchangeId |-> "", symbol |-> <<>>, filePath |-> Undefined]
    /\ wresult = NoResult
    /\ data = <<>> /\ raised = Undefined /\ exitCode = Undefined
    /\ requests = <<>> /\ received = <<>> /\ events = <<>> /\ loads = <<>>
    /\ processed = <<>> /\ before = <<>> /\ results = <<>> /\ writes = <<>> /\ written = <<>>

\* What a file left by an earlier run holds.
OldContent == <<Header, csvLine(Candle(MaxTs)), csvLine(Candle(MaxTs))>>

\* The process as `main()` is entered: configuration has loaded, and ./data
\* may hold the file of an earlier run.
Init ==
    /\ exchanges \in {<<"okx">>, <<"nosuch", "okx">>, <<"okx", "binance">>}
    /\ symbols \in {<<ETH>>, <<ETH, BTC>>, <<XRP, ETH>>}
    /\ markets = [x \in CcxtExchanges |->
                    IF x = "okx" THEN {replace(ETH, "/", "-"), BTC} ELSE {ETH}]
    /\ \/ adapter = "store" /\ pool = {}
          /\ store \in {{}, {Candle(DefaultStart)},
                        {Candle(t) : t \in DefaultStart..DefaultStart + DefaultLimit}}
       \/ adapter = "any" /\ store = {} /\ pool \in {{NotArray}, {BadTs}, {NaNTs}}
    /\ pc = "start" /\ ei = 0 /\ si = 0 /\ fetcher = "none"
    /\ \/ files = << >> /\ dirs = {<<".">>}
       \/ \E sym \in {ETH, XRP} :
             /\ files = writeFileSync(<< >>, defaultPath("okx", sym), OldContent)
             /\ dirs = ancestors(dirname(defaultPath("okx", sym)))
    /\ IdleFrames

Next == MainStep \/ FetchStep \/ WriteStep

Spec == Init /\ [][Next]_vars

\* The runs over a configuration that names an unsupported exchange and then
\* a supported one, into an empty ./data. Scheduling is sequential and
\* cooperative: main, or the call it awaits, has exactly one next step, and a
\* step that can be taken is taken.
InitFair == Init /\ exchanges = <<"nosuch", "okx">> /\ files = << >>

FairSpec == InitFair /\ [][Next]_vars /\ WF_vars(Next)


-----------------------------------------------------------------------------
(* One call of fetchSymbolData(symbol, since, limit) on a constructed fetcher *)

ETH_dash  == <<"E", "-", "U">>
ETH_under == <<"E", "_", "U">>
ETHX      == <<"E", "/", "U", "/", "X">>
NoSlash   == <<"E", "U">>

TestSymbols == {ETH, ETH_dash, ETHX, NoSlash}
CatalogKeys ==
    {ETH, ETH_dash, ETH_under, replace(ETHX, "/", "-"), replace(ETHX, "/", "_"),
     <<"E", "-", "U", "-", "X">>}
Catalogs == {c \in SUBSET CatalogKeys : Cardinality(c) <= 2}

AnyPools ==
    {{Candle(1), Candle(3)}, {Candle(1), BadTs}, {Candle(3), NotArray}, {Candle(1), NaNTs}}

InitFetch ==
    /\ exchanges = <<"okx">> /\ symbols = <<ETH>>
    /\ pc = "test" /\ ei = 1 /\ si = 1 /\ fetcher = "okx"
    /\ files = << >> /\ dirs = {<<".">>}
    /\ wpc = "idle"
    /\ wargs = [data |-> <<>>, exchangeId |-> "", symbol |-> <<>>, filePath |-> Undefined]
    /\ wresult = NoResult
    /\ data = <<>> /\ raised = Undefined /\ exitCode = Undefined
    /\ requests = <<>> /\ received = <<>> /\ events = <<>> /\ loads = <<>>
    /\ processed = <<>> /\ before = <<>> /\ results = <<>> /\ writes = <<>> /\ written = <<>>
    /\ fpc = "load"
    /\ currentSince = 0 /\ totalRequests = 0 /\ allData = <<>>
    /\ ferror = Undefined /\ fresult = NoResult
    /\ \/ \* symbol resolution against a catalog
          /\ \E c \in Catalogs : markets = [x \in CcxtExchanges |-> c]
          /\ fargs \in [symbol : TestSymbols, since : {Undefined}, limit : {Undefined}]
          /\ adapter = "store" /\ pool = {} /\ store = {Candle(DefaultStart)}
       \/ \* pagination against an adapter that honours since and limit
          /\ markets = [x \in CcxtExchanges |-> {ETH}]
          /\ fargs \in [symbol : {ETH}, since : Sinces, limit : Limits]
          /\ adapter = "store" /\ pool = {}
          /\ store \in SUBSET {Candle(t) : t \in Timestamps}
       \/ \* pagination against an adapter that answers anything
          /\ markets = [x \in CcxtExchanges |-> {ETH}]
          /\ fargs \in [symbol : {ETH}, since : {Undefined, Some(0), Some(1)}, limit : Limits]
          /\ adapter = "any" /\ store = {} /\ pool \in AnyPools
    /\ symbol = fargs.symbol

NextFetch == FetchStep

SpecFetch == InitFetch /\ [][NextFetch]_vars

-----------------------------------------------------------------------------
(* Two calls of writeDataToCSV in a row *)

MaxRows == 2    \* length of a series handed to writeDataToCSV

BackSlash == <<"E", "\\", "U", "\\", "X">>
CustomPath == <<"out", "/", "eth.csv">>

CsvPool    == {Candle(0), Candle(DayLength), NotArray}
CsvTargets ==
    {[symbol |-> ETH, filePath |-> Undefined],
     [symbol |-> ETHX, filePath |-> Undefined],
     [symbol |-> BackSlash, filePath |-> Undefined],
     [symbol |-> ETH, filePath |-> Some(<<>>)],
     [symbol |-> ETH, filePath |-> Some(CustomPath)]}

InitCSV ==
    /\ exchanges = <<"okx">> /\ symbols = <<ETH>>
    /\ markets = [x \in CcxtExchanges |-> {ETH}]
    /\ adapter = "store" /\ store = {} /\ pool = {}
    /\ pc = "test" /\ ei = 1 /\ si = 1 /\ fetcher = "okx"
    /\ \/ files = << >> /\ dirs = {<<".">>}
       \/ /\ files = writeFileSync(<< >>, defaultPath("okx", ETH), OldContent)
          /\ dirs = ancestors(dirname(defaultPath("okx", ETH)))
    /\ IdleFrames

\* The test calls writeDataToCSV(data, 'okx', symbol, filePath), twice.
TestWrite ==
    /\ pc \in {"test", "test2"}
    /\ wpc \in {"idle", "done"}
    /\ \E series \in SeqsUpTo(CsvPool, MaxRows), target \in CsvTargets :
          EnterWrite(series, "okx", target.symbol, target.filePath)
    /\ pc' = IF pc = "test" THEN "test2" ELSE "end"
    /\ UNCHANGED <<envVars, ei, si, fetcher, data, raised, exitCode, fetchVars, fsVars,
                   requests, received, events, loads, processed, before, results, written>>

NextCSV == TestWrite \/ WriteStep

SpecCSV == InitCSV /\ [][NextCSV]_vars


-----------------------------------------------------------------------------
(* Properties of fetchSymbolData, checked under SpecFetch *)

RECURSIVE Flatten(_)
Flatten(pages) ==
    IF pages = <<>> THEN <<>> ELSE Head(pages) \o Flatten(Tail(pages))

Limit == limitOf(fargs.limit)

\* Pages 1..n are full: exactly Limit entries, the last with a timestamp that
\* is a number.
FullPages(n) ==
    \A i \in 1..n : Len(received[i]) = Limit /\ Last(received[i]).kind = "ok"

\* C1: for a limit L >= 1, when the adapter has answered k >= 0 full pages and
\* then one non-empty page of fewer than L candles, the call has ended: exactly
\* k+1 requests were issued and the value returned is the concatenation of the
\* k+1 pages in the order received.
C1_ShortPageEndsFetch ==
    ( /\ Limit >= 1
      /\ received # <<>>
      /\ FullPages(Len(received) - 1)
      /\ Len(Last(received)) \in 1..(Limit - 1) )
    => /\ fpc = "done"
       /\ Len(requests) = Len(received)
       /\ fresult = Returned(Flatten(received))

\* Two full pages of 2 and a short page of 1: 3 requests, 5 candles.
C1_Witness ==
    /\ fpc = "done" /\ Limit = 2
    /\ Len(received) = 3 /\ FullPages(2) /\ Len(received[3]) = 1
    /\ Len(requests) = 3 /\ Len(fresult.value) = 5

\* C2: an empty page ends the fetch loop with no further request: once the
\* last page received is empty the call has ended, as many requests were issued
\* as pages were received, and the value returned holds exactly the candles of
\* the pages before it (nothing, when the first page is the empty one).
C2_EmptyPageEndsFetch ==
    (received # <<>> /\ Last(received) = <<>>)
    => /\ fpc = "done"
       /\ Len(requests) = Len(received)
       /\ fresult = Returned(Flatten(SubSeq(received, 1, Len(received) - 1)))

\* Two full pages, then an empty one.
C2_Witness ==
    /\ fpc = "done" /\ Limit = 2
    /\ Len(received) = 3 /\ FullPages(2) /\ received[3] = <<>>
    /\ Len(requests) = 3 /\ Len(fresult.value) = 4

\* The fetch went past symbol resolution and returned a value from a "store" adapter.
StoreFetchReturned ==
    /\ adapter = "store"
    /\ foundSymbol(fargs.symbol, markets[fetcher]) # Undefined
    /\ fpc = "done" /\ fresult.kind = "value"

\* Every stored candle from the start timestamp on appears exactly once, and the
\* timestamps of the result increase strictly.
CompleteSeries(series, from) ==
    /\ \A c \in store :
          c.ts >= from => Cardinality({i \in DOMAIN series : series[i] = c}) = 1
    /\ \A i \in 1..(Len(series) - 1) : series[i].ts < series[i + 1].ts

\* The start timestamp of the call: the since argument when one is supplied
\* (0 included), the default when none is.
StartTimestamp == IF fargs.since = Undefined THEN DefaultStart ELSE fargs.since[1]

\* C3: against an adapter that holds candles with distinct timestamps and
\* honours since and limit, the series returned is complete: every stored
\* candle with timestamp >= the start timestamp appears in it exactly once, and
\* its timestamps increase strictly.
C3_CompleteSeries_AnyLimit ==
    StoreFetchReturned => CompleteSeries(fresult.value, StartTimestamp)

\* What holds of C3: the series from the cursor's first value on is complete
\* when the limit is at least 1.
C3_CompleteSeries ==
    (StoreFetchReturned /\ Limit >= 1)
    => CompleteSeries(fresult.value, startDate(fargs.since))

\* Three pages of one candle each and the closing empty page, from a start
\* timestamp that leaves an earlier candle out.
C3_Witness ==
    /\ StoreFetchReturned /\ Limit = 1
    /\ Len(received) = 4 /\ Len(fresult.value) = 3
    /\ \E c \in store : c.ts < startDate(fargs.since)

\* C4: the first request carries since = the start timestamp (the since argument
\* whenever one is supplied, 0 included; the default only when none is), every
\* later request carries since = (timestamp of the last candle of the page
\* before it) + 1, and every request carries the same limit.
C4_CursorProtocol ==
    \A i \in DOMAIN requests :
        /\ requests[i].since =
              IF i = 1 THEN StartTimestamp ELSE Last(received[i - 1]).ts + 1
        /\ requests[i].limit = Limit


\* The catalog of the exchange the call runs against, and the requested symbol
\* under the separators '-' and '_'.
Catalog == markets[fetcher]
Dashed(sym)      == replace(sym, "/", "-")
Underscored(sym) == replace(sym, "/", "_")
Present(sym, catalog) ==
    sym \in catalog \/ Dashed(sym) \in catalog \/ Underscored(sym) \in catalog

\* The catalog's form of a present symbol, in variant-priority order.
Canonical(sym, catalog) ==
    IF sym \in catalog THEN sym
    ELSE IF Dashed(sym) \in catalog THEN Dashed(sym)
    ELSE Underscored(sym)

C7_ErrorPropagates ==
    \A i \in DOMAIN events :
        events[i].e = "rejected"
        => /\ i = Len(events)
           /\ fpc \in {"catch", "done"}
           /\ fpc = "done" =>
                 /\ fresult.kind = "error"
                 /\ fresult.error = Some(events[i].err)
                 /\ fresult.value = <<>>

\* The second request is rejected after a page of candles was accumulated.
C7_Witness ==
    /\ fpc = "done" /\ fresult.kind = "error"
    /\ Len(requests) = 2 /\ allData # <<>>
    /\ Last(events).e = "rejected"

-----------------------------------------------------------------------------
(* Properties of main, checked under Spec and FairSpec *)

Supported(e) == exchanges[e] \in CcxtExchanges

\* The pairs of the exchanges an adapter exists for, in configuration order.
RECURSIVE PairsFrom(_, _)
PairsFrom(e, s) ==
    IF e > Len(exchanges) THEN <<>>
    ELSE IF ~Supported(e) \/ s > Len(symbols) THEN PairsFrom(e + 1, 1)
    ELSE <<<<e, s>>>> \o PairsFrom(e, s + 1)

ConfiguredPairs == PairsFrom(1, 1)

IsPrefix(s, t) == Len(s) <= Len(t) /\ s = SubSeq(t, 1, Len(s))

\* The symbol of the k-th processed pair is in its exchange's catalog under no variant.
Absent(k) ==
    ~Present(symbols[processed[k][2]], markets[exchanges[processed[k][1]]])

\* C6: for a pair whose symbol is absent from the catalog under all variants,
\* no fetchOHLCV request is issued; if the catalog loaded, fetchSymbolData
\* returns the empty series and raises nothing; and when main has completed,
\* the next symbol of that exchange was processed right after it.
C6_AbsentSymbol ==
    \A k \in DOMAIN processed :
        Absent(k)
        => /\ \A i \in DOMAIN requests : requests[i].call # k
           /\ (k <= Len(results) /\ loads[k].ok) => results[k] = Returned(<<>>)
           /\ (pc = "completed" /\ processed[k][2] < Len(symbols))
                 => /\ k < Len(processed)
                    /\ processed[k + 1] = <<processed[k][1], processed[k][2] + 1>>

\* 'X/U' is unknown to okx; the run completed and went on to the next symbol.
C6_Witness ==
    /\ pc = "completed"
    /\ \E k \in DOMAIN processed :
          /\ Absent(k) /\ loads[k].ok /\ results[k] = Returned(<<>>)
          /\ k < Len(processed) /\ processed[k + 1][1] = processed[k][1]

\* C8: whatever fails in fetchSymbolData or writeDataToCSV, the pairs whose
\* processing has started are always an initial part of the configured pairs of
\* the constructed exchanges, in configuration order, each once; when main has
\* completed they are all of them; and no pair is fetched or written twice.
C8_ConfigurationOrder ==
    /\ IsPrefix(processed, ConfiguredPairs)
    /\ pc = "completed" => processed = ConfiguredPairs
    /\ Len(results) <= Len(processed)
    /\ \A i, j \in DOMAIN writes : i < j => writes[i].call < writes[j].call

\* Four pairs were processed although a fetch and a write failed on the way.
C8_Witness ==
    /\ pc = "completed" /\ Len(processed) = 4
    /\ \E k \in 1..3 : results[k].kind = "error"
    /\ \E i \in DOMAIN written : written[i].call < 4 /\ written[i].result.kind = "error"

\* C9: with configuration loaded, main never exits with code 1 and, every
\* fetch terminating, reaches 'All data fetching tasks completed'.
C9_AlwaysCompletes == [](exitCode = Undefined) /\ <>(pc = "completed")

\* Completed after a failed construction, a rejected page fetch and a failed
\* CSV write.
C9_Witness ==
    /\ pc = "completed" /\ exitCode = Undefined
    /\ \E e \in DOMAIN exchanges : ~Supported(e)
    /\ \E k \in DOMAIN results :
          results[k].kind = "error" /\ loads[k].ok /\ \E i \in DOMAIN requests : requests[i].call = k
    /\ \E i \in DOMAIN written : written[i].result.kind = "error"

-----------------------------------------------------------------------------
(* Properties of writeDataToCSV, checked under SpecCSV *)

Succeeded(w) == w.result.kind = "value"

\* C10: after a successful write the target file holds the header and the rows
\* of the series just written and nothing else, whatever it held before; so two
\* successful writes of the same series leave identical files.
C10_FullOverwrite ==
    /\ \A i \in DOMAIN written :
          Succeeded(written[i]) => written[i].content = Some(csvContent(written[i].data))
    /\ \A i, j \in DOMAIN written :
          ( /\ Succeeded(written[i]) /\ Succeeded(written[j])
            /\ written[i].data = written[j].data )
          => written[i].content = written[j].content

\* The same non-empty series was written twice to the same path.
C10_Witness ==
    /\ Len(written) = 2
    /\ Succeeded(written[1]) /\ Succeeded(written[2])
    /\ written[1].path = written[2].path
    /\ written[1].data = written[2].data /\ written[1].data # <<>>

\* The symbol with every occurrence of a character replaced.
RECURSIVE ReplacedAll(_, _, _)
ReplacedAll(s, pattern, replacement) ==
    IF s = <<>> THEN <<>>
    ELSE <<IF Head(s) = pattern THEN replacement ELSE Head(s)>>
         \o ReplacedAll(Tail(s), pattern, replacement)

Contains(s, ch) == \E i \in DOMAIN s : s[i] = ch

DataDir == <<".", "/", "data">>

\* C11: when no file path is given, writeDataToCSV writes to
\* ./data/{exchangeId}_{S}_daily.csv, where S is the symbol with '/' and '\'
\* replaced by '-'; S contains no '/' and no '\', whatever the symbol, so the
\* file lies directly in ./data.
C11_DefaultPath ==
    \A i \in DOMAIN written :
        LET S == ReplacedAll(ReplacedAll(written[i].symbol, "/", "-"), "\\", "-") IN
        written[i].filePath = Undefined
        => /\ written[i].path =
                 DataDir \o <<"/", written[i].exchangeId, "_">> \o S \o <<"_daily.csv">>
           /\ ~Contains(S, "/") /\ ~Contains(S, "\\")
           /\ dirname(written[i].path) = DataDir
           /\ Succeeded(written[i]) => written[i].content # Undefined

\* C12: the file left by a successful writeDataToCSV of a series of n entries
\* (n = 0 included) is the header line followed by exactly n data lines, the
\* j-th of them made from the j-th entry of the series: same order, nothing
\* dropped, merged or duplicated; an empty series leaves the header alone.
C12_CsvShape ==
    \A i \in DOMAIN written :
        Succeeded(written[i])
        => /\ written[i].content # Undefined
           /\ LET lines  == written[i].content[1]
                  series == written[i].data
              IN  /\ Len(lines) = 1 + Len(series)
                  /\ lines[1] = Header
                  /\ \A j \in DOMAIN series :
                        lines[j + 1] = <<formattedDate(series[j]), ToString(series[j].px)>>
                  /\ series = <<>> => lines = <<Header>>

\* An empty series was written, and then a series of two candles of
\* different days.
C12_Witness ==
    /\ Len(written) = 2
    /\ Succeeded(written[1]) /\ written[1].data = <<>>
    /\ written[1].content = Some(<<Header>>)
    /\ Succeeded(written[2]) /\ Len(written[2].data) = 2
    /\ written[2].data[1] # written[2].data[2]
    /\ Len(written[2].content[1]) = 3

-----------------------------------------------------------------------------
(* Further properties of fetchSymbolData, checked under SpecFetch *)

Count(kind) == Cardinality({i \in DOMAIN events : events[i].e = kind})

\* C13: in a run of fetchSymbolData the first fetchOHLCV request is issued with
\* no delay before it; every later request comes right after exactly one delay
\* of the fixed length, and that delay right after the previous page was
\* received; a request is followed by nothing but its own answer, so at most
\* one request is outstanding; and no delay follows the last request, so a run
\* that has ended with n >= 1 requests has slept exactly n - 1 times.
C13_InterRequestDelay ==
    /\ \A i \in DOMAIN events :
          /\ events[i].e = "request" =>
                IF i = 1 THEN TRUE
                ELSE /\ i >= 3
                     /\ events[i - 1].e = "delay" /\ events[i - 1].ms = Delay
                     /\ events[i - 2].e = "page"
          /\ events[i].e = "delay" =>
                /\ i > 1 /\ events[i - 1].e = "page"
                /\ IF i < Len(events) THEN events[i + 1].e = "request"
                   ELSE fpc = "request"
          /\ (events[i].e = "request" /\ i < Len(events)) =>
                events[i + 1].e \in {"page", "rejected"}
          /\ events[i].e \in {"page", "rejected"} => i > 1 /\ events[i - 1].e = "request"
    /\ events # <<>> => events[1].e = "request"
    /\ Count("request") = Len(requests)
    /\ Count("request") - Count("page") - Count("rejected") \in {0, 1}
    /\ (fpc = "done" /\ requests # <<>>) => Count("delay") = Len(requests) - 1

\* A run of three requests that has ended: two delays, one before the second
\* request and one before the third.
C13_Witness ==
    /\ fpc = "done" /\ Len(requests) = 3
    /\ Count("delay") = 2
    /\ events[3].e = "delay" /\ events[6].e = "delay"

\* The adapter holds only candles from the start timestamp on, and honours
\* since and limit.
StoreFromStart ==
    /\ adapter = "store"
    /\ foundSymbol(fargs.symbol, markets[fetcher]) # Undefined
    /\ \A c \in store : c.ts >= StartTimestamp

\* C14: against an adapter that holds N candles with distinct timestamps >= the
\* start timestamp and honours since and limit, fetchSymbolData with a limit
\* L >= 1 never issues more than floor(N / L) + 1 requests, and has issued
\* exactly that many when it returns (one of them answered by an empty page
\* when N is a multiple of L).
C14_RequestCount ==
    (StoreFromStart /\ Limit >= 1)
    => /\ Len(requests) <= (Cardinality(store) \div Limit) + 1
       /\ (fpc = "done" /\ fresult.kind = "value")
             => Len(requests) = (Cardinality(store) \div Limit) + 1

\* The last entry of a non-empty page carries no valid numeric timestamp: it is
\* no array, or its element 0 is no number, or is the number NaN.
InvalidLast(page) == page # <<>> /\ Last(page).kind # "ok"

\* C15: when the last entry of a received page lacks a valid numeric timestamp,
\* the loop has ended with that page, full or not: no delay and no request
\* follows it, the call raises no error, and the value it returns begins with
\* every entry of every earlier page, in the order received.
C15_InvalidTimestampStop ==
    \A i \in DOMAIN received :
        InvalidLast(received[i])
        => /\ i = Len(received) /\ Len(requests) = i
           /\ Last(events).e = "page"
           /\ fpc = "done"
           /\ fresult.kind = "value"
           /\ IsPrefix(Flatten(SubSeq(received, 1, i - 1)), fresult.value)

\* C19: the page whose last entry has no valid numeric timestamp is appended
\* in full before the loop stops: the value returned is the concatenation of
\* all earlier pages and that whole page, the offending entry included.
C19_InvalidPageKept ==
    \A i \in DOMAIN received :
        InvalidLast(received[i])
        => /\ allData = Flatten(SubSeq(received, 1, i))
           /\ fpc = "done"
           /\ fresult = Returned(Flatten(SubSeq(received, 1, i)))
           /\ Last(fresult.value) = Last(received[i])

-----------------------------------------------------------------------------
(* Further properties of main, checked under Spec *)

\* The file system as the processing of the k-th pair was over.
After(k) == IF k < Len(before) THEN before[k + 1] ELSE files

\* The file main writes for the k-th processed pair.
OutputFile(k) == defaultPath(exchanges[processed[k][1]], symbols[processed[k][2]])

\* C16: when fetchSymbolData raises for a pair, main does not call
\* writeDataToCSV for it; the pair's output file and every other file are as
\* they were when the pair's processing started, throughout the fetch and
\* after it; and main goes on with the next symbol of the exchange.
C16_FailedFetchSkipped ==
    /\ pc = "fetchSymbolData" => files = before[Len(before)]
    /\ \A k \in DOMAIN results :
          results[k].kind = "error"
          => /\ \A i \in DOMAIN writes : writes[i].call # k
             /\ After(k) = before[k]
             /\ (k = Len(processed) /\ pc = "symbolLoop" /\ ei = processed[k][1])
                   => si = processed[k][2] + 1
             /\ (pc = "completed" /\ processed[k][2] < Len(symbols))
                   => /\ k < Len(processed)
                      /\ processed[k + 1] = <<processed[k][1], processed[k][2] + 1>>

\* The fetch of a pair whose file an earlier run had left was rejected after a
\* page was received; the next symbol was processed and the run completed.
C16_Witness ==
    /\ pc = "completed"
    /\ \E k \in DOMAIN results :
          /\ results[k].kind = "error"
          /\ \E i \in DOMAIN requests : requests[i].call = k
          /\ OutputFile(k) \in DOMAIN before[k]
          /\ files[OutputFile(k)] = OldContent
          /\ k < Len(processed) /\ processed[k + 1][1] = processed[k][1]

\* C17: for a configured exchange the adapter library does not support, the
\* construction of the DataFetcher raises and the error is caught at exchange
\* level, never above it; no symbol of that exchange is processed, so no market
\* load, no fetchOHLCV request and no CSV write is made for it and no file of
\* it appears; and the run goes on to the next configured exchange, all of
\* whose symbols have been processed when main completes.
C17_UnsupportedExchange ==
    /\ pc = "exchangeCatch" => ~Supported(ei) /\ raised # Undefined
    /\ \A e \in DOMAIN exchanges :
          ~Supported(e)
          => /\ \A k \in DOMAIN processed : processed[k][1] # e
             /\ \A k \in DOMAIN loads : loads[k].ex # exchanges[e]
             /\ \A i \in DOMAIN requests : requests[i].ex # exchanges[e]
             /\ \A i \in DOMAIN writes :
                   writes[i].call >= 1 /\ processed[writes[i].call][1] # e
             /\ \A s \in DOMAIN symbols :
                   defaultPath(exchanges[e], symbols[s]) \notin DOMAIN files
             /\ ei >= e => pc \notin {"topCatch", "exited"} /\ exitCode = Undefined
             /\ (pc = "completed" /\ e < Len(exchanges) /\ Supported(e + 1))
                   => \A s \in DOMAIN symbols :
                         \E k \in DOMAIN processed : processed[k] = <<e + 1, s>>

\* 'nosuch' came first and was skipped; both symbols of okx were then
\* processed, with market loads and a CSV written.
C17_Witness ==
    /\ pc = "completed"
    /\ ~Supported(1) /\ Supported(2)
    /\ processed = <<<<2, 1>>, <<2, 2>>>>
    /\ Len(loads) = 2 /\ requests # <<>>
    /\ \E i \in DOMAIN written : Succeeded(written[i])

\* C18: main calls writeDataToCSV for exactly the pairs whose fetchSymbolData
\* returned without raising, with the series it returned, candles or none, and
\* for the pair's own output file; in particular a symbol that is not in the
\* catalog, whose fetch returns the empty series, gets the call too, and the
\* file it leaves is the header alone, whatever a file of that pair held before.
C18_WriteFollowsFetch ==
    /\ \A i \in DOMAIN writes : writes[i].call \in DOMAIN results
    /\ \A k \in DOMAIN results :
          /\ (\E i \in DOMAIN writes : writes[i].call = k) <=> results[k].kind = "value"
          /\ \A i \in DOMAIN writes :
                writes[i].call = k
                => writes[i].data = results[k].value /\ writes[i].path = OutputFile(k)
          /\ (Absent(k) /\ loads[k].ok)
                => /\ results[k] = Returned(<<>>)
                   /\ \A i \in DOMAIN written :
                         (written[i].call = k /\ Succeeded(written[i]))
                         => written[i].content = Some(<<Header>>)

\* 'X/U' is unknown to okx and an earlier run had left a file for it: the run
\* completed and the file now holds the header alone.
C18_Witness ==
    /\ pc = "completed"
    /\ \E k \in DOMAIN results :
          /\ Absent(k) /\ loads[k].ok
          /\ OutputFile(k) \in DOMAIN before[k]
          /\ before[k][OutputFile(k)] = OldContent
          /\ files[OutputFile(k)] = <<Header>>

=============================================================================
